---- MODULE Spec2Model ----
(***************************************************************************)
(* A model of the STL inspector: App (src/App.tsx), Viewer3D and the       *)
(* Gemini service (src/unnamed/part_000) and Sidebar                       *)
(* (src/components/Sidebar.tsx).                                           *)
(*                                                                         *)
(* Numbers.  The program computes in IEEE doubles; the model computes in   *)
(* exact rationals <<n, d>> (d > 0, reduced), so every equality below is   *)
(* the exact counterpart of an equality "within floating-point tolerance". *)
(* A unit quaternion is represented by the primitive integer vector        *)
(* <<x, y, z, w>> proportional to it (a positive multiple, so q and -q     *)
(* stay distinct, as in the program).                                      *)
(*                                                                         *)
(* Steps.  One action is one event handler together with the synchronous   *)
(* re-render and the effects that re-render runs (the measurePoints reset  *)
(* effect of Viewer3D, the layout effect of STLModel).  The mesh load, the *)
(* canvas-ready callback and the settlement of the AI request are events   *)
(* of their own.                                                           *)
(***************************************************************************)
EXTENDS Integers, Sequences, FiniteSets, TLC

VARIABLES
    fileUrl,        \* App: object URL of the loaded file, 0 = null
    dimensions,     \* App: <<>> = null, <<d>> = ModelDimensions d
    viewerMode,     \* App: "VIEW" | "MEASURE" | "ALIGN" | "AI_ANALYSIS"
    scale,          \* App: rational
    meshRotation,   \* App: quaternion
    canvasRef,      \* App: TRUE when canvasRef.current holds the canvas
    created,        \* browser: number of object URLs created so far (ids 1..created)
    revoked,        \* browser: revoked[u] = times URL u was revoked
    source,         \* the mesh (file content) behind fileUrl
    geometry,       \* STLModel: <<>> while loading, <<vertex set>> once loaded
    verticalOffset, \* STLModel: rational
    measurePoints,  \* Viewer3D: sequence of picked points
    activeTab,      \* Sidebar: "info" | "ai"
    messages,       \* Sidebar: transcript
    isAnalyzing,    \* Sidebar
    prompt,         \* Sidebar: text of the prompt box
    pending,        \* requests handed to analyzeModelImage and not yet settled
    issued,         \* number of calls of analyzeModelImage so far
    last            \* the event that produced this state, and the state it acted on

vars == <<fileUrl, dimensions, viewerMode, scale, meshRotation, canvasRef, created,
          revoked, source, geometry, verticalOffset, measurePoints, activeTab,
          messages, isAnalyzing, prompt, pending, issued, last>>

appVars == <<fileUrl, dimensions, viewerMode, scale, meshRotation, created, revoked,
             source, geometry, verticalOffset, measurePoints>>
chatVars == <<messages, isAnalyzing, prompt, pending, issued>>

-----------------------------------------------------------------------------
(* Bounds *)

MaxFiles == 3
MaxMsgs == 3
MaxQNorm == 30

-----------------------------------------------------------------------------
(* Exact arithmetic.  A rational is <<n, d>>, d > 0, reduced.  A vector or a
   geometry carries integer coordinates v and one denominator d: it stands
   for v / d. *)

Abs(n) == IF n < 0 THEN -n ELSE n

RECURSIVE GCD(_, _)
GCD(a, b) == IF b = 0 THEN a ELSE GCD(b, a % b)

Rat(n, d) ==
    LET g == GCD(Abs(n), Abs(d))
        s == IF d < 0 THEN -1 ELSE 1
    IN  <<(s * n) \div g, (s * d) \div g>>

Whole(n) == <<n, 1>>
RMul(a, b) == Rat(a[1] * b[1], a[2] * b[2])
RDiv(a, b) == Rat(a[1] * b[2], a[2] * b[1])
RLt(a, b) == a[1] * b[2] < b[1] * a[2]

Min(S) == CHOOSE m \in S : \A o \in S : m <= o
Max(S) == CHOOSE m \in S : \A o \in S : o <= m

\* Math.sqrt(n) of a perfect square, by bisection
RECURSIVE SqrtIn(_, _, _)
SqrtIn(n, lo, hi) ==
    IF lo >= hi THEN lo
    ELSE LET mid == (lo + hi + 1) \div 2
         IN  IF mid * mid <= n THEN SqrtIn(n, mid, hi) ELSE SqrtIn(n, lo, mid - 1)
Sqrt(n) == SqrtIn(n, 0, IF n < 46340 THEN n ELSE 46340)

Dot(a, b) == a[1] * b[1] + a[2] * b[2] + a[3] * b[3]
Cross(a, b) ==
    <<a[2] * b[3] - a[3] * b[2], a[3] * b[1] - a[1] * b[3], a[1] * b[2] - a[2] * b[1]>>

\* v / d with the common factor of v and d removed
Vec(v, d) ==
    LET g == GCD(GCD(Abs(v[1]), Abs(v[2])), GCD(Abs(v[3]), d))
    IN  [v |-> <<v[1] \div g, v[2] \div g, v[3] \div g>>, d |-> d \div g]

-----------------------------------------------------------------------------
(* THREE.Quaternion and THREE.Vector3, as the program calls them *)

QNormSq(q) == q[1] * q[1] + q[2] * q[2] + q[3] * q[3] + q[4] * q[4]

\* Quaternion.normalize(): the representative of the quaternion's direction,
\* its components divided by their greatest common divisor.
QNormalize(q) ==
    LET g == GCD(GCD(Abs(q[1]), Abs(q[2])), GCD(Abs(q[3]), Abs(q[4])))
    IN  IF g = 0 THEN q ELSE <<q[1] \div g, q[2] \div g, q[3] \div g, q[4] \div g>>

\* new Quaternion().setFromEuler(new Euler(-PI/2, 0, 0)) = (sin(-PI/4), 0, 0, cos(-PI/4))
DefaultRotation == <<-1, 0, 0, 1>>

\* new Quaternion().setFromAxisAngle((1,0,0), -PI/2) = (sin(-PI/4), 0, 0, cos(-PI/4))
Rotator == <<-1, 0, 0, 1>>

\* a.multiply(b): the Hamilton product a * b
QMultiply(a, b) ==
    QNormalize(<<a[1] * b[4] + a[4] * b[1] + a[2] * b[3] - a[3] * b[2],
                 a[2] * b[4] + a[4] * b[2] + a[3] * b[1] - a[1] * b[3],
                 a[3] * b[4] + a[4] * b[3] + a[1] * b[2] - a[2] * b[1],
                 a[4] * b[4] - a[1] * b[1] - a[2] * b[2] - a[3] * b[3]>>)

\* |q|^2 times the image of the integer vector v under the rotation of q:
\* |q|^2 v + 2w (u x v) + 2 u x (u x v), u = q.xyz
RotN(v, q) ==
    LET u   == <<q[1], q[2], q[3]>>
        uv  == Cross(u, v)
        uuv == Cross(u, uv)
        n   == QNormSq(q)
    IN  <<n * v[1] + 2 * q[4] * uv[1] + 2 * uuv[1],
          n * v[2] + 2 * q[4] * uv[2] + 2 * uuv[2],
          n * v[3] + 2 * q[4] * uv[3] + 2 * uuv[3]>>

\* vec.applyQuaternion(q)
ApplyQuaternion(vec, q) == Vec(RotN(vec.v, q), vec.d * QNormSq(q))

\* vec.normalize() = vec.divideScalar(vec.length() || 1); the length of v / d
\* is sqrt(v.v) / d
Normalize(vec) ==
    LET len == Sqrt(Dot(vec.v, vec.v))
    IN  IF len = 0 THEN vec ELSE Vec(vec.v, len)

\* q.setFromUnitVectors(vFrom, vTo).  r = vFrom.vTo + 1 is compared with
\* Number.EPSILON = 2^-52; no positive rational the model can hold is that
\* small, so the test is r <= 0.
SetFromUnitVectors(vFrom, vTo) ==
    LET a == vFrom.v
        r == Dot(a, vTo.v) + vFrom.d * vTo.d
        c == Cross(a, vTo.v)
    IN  IF r <= 0
        THEN IF Abs(a[1]) > Abs(a[3])
             THEN QNormalize(<<-a[2], a[1], 0, 0>>)
             ELSE QNormalize(<<0, -a[3], a[2], 0>>)
        ELSE QNormalize(<<c[1], c[2], c[3], r>>)

-----------------------------------------------------------------------------
(* THREE.BufferGeometry: the set of its vertices, v / d each *)

Coords(geo, i) == {v[i] : v \in geo.v}

\* geometry.computeBoundingBox()
ComputeBoundingBox(geo) ==
    [min |-> <<Min(Coords(geo, 1)), Min(Coords(geo, 2)), Min(Coords(geo, 3))>>,
     max |-> <<Max(Coords(geo, 1)), Max(Coords(geo, 2)), Max(Coords(geo, 3))>>,
     d |-> geo.d]

\* geometry.center(): translate by minus the centre (min + max) / 2 of the
\* bounding box
Center(geo) ==
    LET box == ComputeBoundingBox(geo)
        c2  == <<box.min[1] + box.max[1], box.min[2] + box.max[2], box.min[3] + box.max[3]>>
    IN  IF c2[1] % 2 = 0 /\ c2[2] % 2 = 0 /\ c2[3] % 2 = 0
        THEN [v |-> {<<v[1] - c2[1] \div 2, v[2] - c2[2] \div 2, v[3] - c2[3] \div 2>> :
                     v \in geo.v},
              d |-> geo.d]
        ELSE [v |-> {<<2 * v[1] - c2[1], 2 * v[2] - c2[2], 2 * v[3] - c2[3]>> : v \in geo.v},
              d |-> 2 * geo.d]

\* geometry.applyQuaternion(q)
ApplyQuaternionGeo(geo, q) == [v |-> {RotN(v, q) : v \in geo.v}, d |-> geo.d * QNormSq(q)]

\* geometry.scale(x, y, 1)
ScaleGeoXY(geo, x, y, z) ==
    [v |-> {<<v[1] * x[1], v[2] * y[1], v[3] * x[2]>> : v \in geo.v}, d |-> geo.d * x[2]]

\* geometry.scale(x, y, z), each factor a rational with the same denominator
ScaleGeo(geo, x, y, z) ==
    [v |-> {<<v[1] * x[1], v[2] * y[1], v[3] * z[1]>> : v \in geo.v}, d |-> geo.d * x[2]]

\* box.getSize(size)
GetSize(box) ==
    <<Rat(box.max[1] - box.min[1], box.d), Rat(box.max[2] - box.min[2], box.d),
      Rat(box.max[3] - box.min[3], box.d)>>

\* A layout effect that takes the offset from the bounding box of the rotated
\* geometry before tempGeo.scale
LayoutEffectOffsetUnscaled(geo, rotation, s) ==
    LET centred == Center(geo)
        rotated == ApplyQuaternionGeo(centred, rotation)
        box     == ComputeBoundingBox(ScaleGeo(rotated, s, s, s))
        size    == GetSize(box)
        early   == ComputeBoundingBox(rotated)
    IN  [geometry |-> centred,
         dims |-> [width |-> size[1], height |-> size[2], depth |-> size[3],
                   volume |-> RMul(RMul(size[1], size[2]), size[3])],
         offset |-> Rat(-early.min[2], early.d)]

\* The layout effect of STLModel: the centred geometry, the dimensions handed
\* to onDimensionsCalculated and the vertical offset.
LayoutEffect(geo, rotation, s) ==
    LET centred == Center(geo)
        tempGeo == ScaleGeo(ApplyQuaternionGeo(centred, rotation), s, s, s)
        box     == ComputeBoundingBox(tempGeo)
        size    == GetSize(box)
    IN  [geometry |-> centred,
         dims |-> [width |-> size[1], height |-> size[2], depth |-> size[3],
                   volume |-> RMul(RMul(size[1], size[2]), size[3])],
         offset |-> Rat(-box.min[2], box.d)]

-----------------------------------------------------------------------------
(* Inputs *)

\* A file: the geometry the loader yields and the unit normals of its faces.
Box ==
    [geo |-> [v |-> {<<x, y, z>> : x \in {0, 4}, y \in {0, 2}, z \in {0, 6}}, d |-> 1],
     normals |-> {Vec(<<1, 0, 0>>, 1), Vec(<<-1, 0, 0>>, 1), Vec(<<0, 1, 0>>, 1),
                  Vec(<<0, -1, 0>>, 1), Vec(<<0, 0, 1>>, 1), Vec(<<0, 0, -1>>, 1)}]

Wedge ==
    [geo |-> [v |-> {<<0, 0, 0>>, <<2, 0, 0>>, <<0, 1, 0>>, <<0, 0, 3>>}, d |-> 1],
     normals |-> {Vec(<<-1, 0, 0>>, 1), Vec(<<0, -1, 0>>, 1), Vec(<<0, 0, -1>>, 1),
                  Vec(<<3, 6, 2>>, 7)}]

\* e.point of a click on the mesh
Points == {"p1", "p2"}

\* What the user can type into the scale box
ScaleTexts == {"", "0", "100", "200"}

\* parseFloat(text): <<>> is NaN
ParseFloat(text) ==
    CASE text = "0" -> <<Whole(0)>>
      [] text = "50" -> <<Whole(50)>>
      [] text = "100" -> <<Whole(100)>>
      [] text = "200" -> <<Whole(200)>>
      [] OTHER -> <<>>

-----------------------------------------------------------------------------
(* The state an event acted on, kept in last.pre *)

Pre ==
    [file |-> fileUrl, mode |-> viewerMode, scale |-> scale,
     rotated |-> meshRotation # DefaultRotation,
     points |-> measurePoints, ready |-> canvasRef, msgs |-> Len(messages),
     busy |-> isAnalyzing, issued |-> issued, prompt |-> prompt]

Event(op, arg) == [op |-> op, arg |-> arg, pre |-> Pre]

\* A press of a tool button: the button, whether this is its first press or
\* the second of two presses in a row (n), and the mode before those presses.
Streak(btn) ==
    IF last.op = "mode" /\ last.arg.btn = btn
    THEN [btn |-> btn, n |-> 2, from |-> last.pre.mode]
    ELSE [btn |-> btn, n |-> 1, from |-> viewerMode]

-----------------------------------------------------------------------------
(* Init: the state after the first render of App *)

Init ==
    /\ fileUrl = 0
    /\ dimensions = <<>>
    /\ viewerMode = "VIEW"
    /\ scale = Whole(1)
    /\ meshRotation = DefaultRotation
    /\ canvasRef = FALSE
    /\ created = 0
    /\ revoked = [u \in 1..MaxFiles |-> 0]
    /\ source = Box
    /\ geometry = <<>>
    /\ verticalOffset = Whole(0)
    /\ measurePoints = <<>>
    /\ activeTab = "info"
    /\ messages = <<>>
    /\ isAnalyzing = FALSE
    /\ prompt = ""
    /\ pending = <<>>
    /\ issued = 0
    /\ last = [op |-> "init", arg |-> 0,
               pre |-> [file |-> 0, mode |-> "VIEW", scale |-> Whole(1),
                        rotated |-> FALSE, points |-> <<>>, ready |-> FALSE,
                        msgs |-> 0, busy |-> FALSE, issued |-> 0, prompt |-> ""]]

-----------------------------------------------------------------------------
(* Viewer3D and STLModel *)

\* The reset effect with the dependencies [fileUrl, meshRotation, scale]
ResetEffectNoMode(fileChanged, modeChanged, rotationChanged, scaleChanged, points) ==
    IF fileChanged \/ rotationChanged \/ scaleChanged THEN <<>> ELSE points

\* The reset effect with the dependencies [fileUrl, viewerMode, meshRotation]
ResetEffectNoScale(fileChanged, modeChanged, rotationChanged, scaleChanged, points) ==
    IF fileChanged \/ modeChanged \/ rotationChanged THEN <<>> ELSE points

\* useEffect(() => setMeasurePoints([]), [fileUrl, viewerMode, meshRotation, scale]):
\* the points after a render in which the given dependencies changed.  A
\* quaternion is compared by identity, so every setMeshRotation with a new
\* object is a change.
ResetEffect(fileChanged, modeChanged, rotationChanged, scaleChanged, points) ==
    IF fileChanged \/ modeChanged \/ rotationChanged \/ scaleChanged THEN <<>> ELSE points

\* setMeasurePoints(prev => [...prev, point])
AddPointAlways(prev, point) == Append(prev, point)

\* setMeasurePoints(prev => prev.length >= 2 ? [point] : [...prev, point])
AddPoint(prev, point) == IF Len(prev) >= 2 THEN <<point>> ELSE Append(prev, point)

\* The ALIGN branch with meshRotation.multiply(alignQuat)
AlignRotationRight(normal, rotation) ==
    LET worldNormal == Normalize(ApplyQuaternion(normal, rotation))
        targetDir   == Vec(<<0, -1, 0>>, 1)
        alignQuat   == SetFromUnitVectors(worldNormal, targetDir)
    IN  QMultiply(rotation, alignQuat)

\* The ALIGN branch of handleMeshClick: the rotation handed to onRotationChange
AlignRotation(normal, rotation) ==
    LET worldNormal == Normalize(ApplyQuaternion(normal, rotation))
        targetDir   == Vec(<<0, -1, 0>>, 1)
        alignQuat   == SetFromUnitVectors(worldNormal, targetDir)
    IN  QMultiply(alignQuat, rotation)

\* handleRotate90: rotator.multiply(prev)
Rotate90(prev) == QMultiply(Rotator, prev)

\* The tools of the sidebar are rendered on the info tab once dimensions are set.
ToolsVisible == activeTab = "info" /\ dimensions # <<>>

\* The mesh is rendered (and can be clicked) once its geometry has loaded.
MeshVisible == fileUrl # 0 /\ geometry # <<>>

\* A re-render of a loaded model with a new rotation or scale: the layout
\* effect of STLModel recomputes dimensions and vertical offset.
Recompute(rotation, s) ==
    LET r == LayoutEffect(geometry[1], rotation, s)
    IN  /\ geometry' = <<r.geometry>>
        /\ dimensions' = <<r.dims>>
        /\ verticalOffset' = r.offset

-----------------------------------------------------------------------------
(* App *)

\* handleFileUpload without setScale(1)
KeepScale(current) == current

\* setScale(1) of handleFileUpload
ResetScale(current) == Whole(1)

\* No URL.revokeObjectURL
RevokeNever(url, rev) == rev

\* URL.revokeObjectURL(fileUrl) when fileUrl is set
RevokeOld(url, rev) == IF url # 0 THEN [rev EXCEPT ![url] = @ + 1] ELSE rev

\* handleFileChange -> handleFileUpload(file)
HandleFileUpload(file) ==
    /\ activeTab = "info"
    /\ created < MaxFiles
    /\ revoked' = RevokeOld(fileUrl, revoked)
    /\ created' = created + 1
    /\ fileUrl' = created + 1
    /\ dimensions' = <<>>
    /\ viewerMode' = "VIEW"
    /\ scale' = ResetScale(scale)
    /\ meshRotation' = DefaultRotation
    /\ source' = file
    /\ geometry' = <<>>
    /\ verticalOffset' = Whole(0)
    /\ measurePoints' = ResetEffect(TRUE, viewerMode' # viewerMode, TRUE, scale' # scale,
                                    measurePoints)
    /\ last' = Event("upload", 0)
    /\ UNCHANGED <<canvasRef, activeTab>>
    /\ UNCHANGED chatVars

\* useLoader resolves: STLModel is committed and its layout effect runs.
LoadComplete ==
    /\ fileUrl # 0
    /\ geometry = <<>>
    /\ LET r == LayoutEffect(source.geo, meshRotation, scale)
       IN  /\ geometry' = <<r.geometry>>
           /\ dimensions' = <<r.dims>>
           /\ verticalOffset' = r.offset
    /\ last' = Event("load", 0)
    /\ UNCHANGED <<fileUrl, viewerMode, scale, meshRotation, canvasRef, created, revoked,
                   source, measurePoints, activeTab>>
    /\ UNCHANGED chatVars

\* CanvasCapture's effect -> handleCanvasReady
HandleCanvasReady ==
    /\ fileUrl # 0
    /\ ~canvasRef
    /\ canvasRef' = TRUE
    /\ last' = Event("canvas", 0)
    /\ UNCHANGED <<activeTab>>
    /\ UNCHANGED appVars
    /\ UNCHANGED chatVars

\* The Tools / AI Analysis tab buttons
SetActiveTab(tab) ==
    /\ activeTab' = tab
    /\ last' = Event("tab", 0)
    /\ UNCHANGED <<canvasRef>>
    /\ UNCHANGED appVars
    /\ UNCHANGED chatVars

\* setViewerMode(mode), with no way back to VIEW
ToggleOn(mode, current) == mode

\* A tool button that leaves its mode for AI_ANALYSIS, the fourth member of
\* the ViewerMode enumeration
ToggleToAnalysis(mode, current) == IF current = mode THEN "AI_ANALYSIS" ELSE mode

\* The mode a tool button hands to setViewerMode
Toggle(mode, current) == IF current = mode THEN "VIEW" ELSE mode

\* The Drop Face ("ALIGN") and Ruler Tool ("MEASURE") buttons
PressTool(mode) ==
    /\ ToolsVisible
    /\ viewerMode' = Toggle(mode, viewerMode)
    /\ measurePoints' = ResetEffect(FALSE, viewerMode' # viewerMode, FALSE, FALSE,
                                    measurePoints)
    /\ last' = Event("mode", Streak(mode))
    /\ UNCHANGED <<fileUrl, dimensions, scale, meshRotation, canvasRef, created, revoked,
                   source, geometry, verticalOffset, activeTab>>
    /\ UNCHANGED chatVars

\* The Rotate X button -> handleRotate90
HandleRotate90 ==
    /\ ToolsVisible
    /\ meshRotation' = Rotate90(meshRotation)
    /\ Recompute(meshRotation', scale)
    /\ measurePoints' = ResetEffect(FALSE, FALSE, TRUE, FALSE, measurePoints)
    /\ last' = Event("rotate", 0)
    /\ UNCHANGED <<fileUrl, viewerMode, scale, canvasRef, created, revoked, source,
                   activeTab>>
    /\ UNCHANGED chatVars

\* onChange of the scale box: the scale handed to onScaleChange, or the
\* current scale when the text is rejected
ScaleFromText(text, current) ==
    LET val == ParseFloat(text)
    IN  IF val # <<>> /\ RLt(Whole(0), val[1]) THEN RDiv(val[1], Whole(100)) ELSE current

HandleScaleInput(text) ==
    /\ ToolsVisible
    /\ scale' = ScaleFromText(text, scale)
    /\ IF scale' # scale
       THEN Recompute(meshRotation, scale')
       ELSE UNCHANGED <<geometry, dimensions, verticalOffset>>
    /\ measurePoints' = ResetEffect(FALSE, FALSE, FALSE, scale' # scale, measurePoints)
    /\ last' = Event("scale", text)
    /\ UNCHANGED <<fileUrl, viewerMode, meshRotation, canvasRef, created, revoked, source,
                   activeTab>>
    /\ UNCHANGED chatVars

\* handleMeshClick(e), e.point = point, e.face.normal = normal
HandleMeshClick(point, normal) ==
    /\ MeshVisible
    /\ IF viewerMode = "MEASURE"
       THEN /\ measurePoints' = AddPoint(measurePoints, point)
            /\ last' = Event("measure", point)
            /\ UNCHANGED <<meshRotation, geometry, dimensions, verticalOffset>>
       ELSE IF viewerMode = "ALIGN"
       THEN /\ meshRotation' = AlignRotation(normal, meshRotation)
            /\ QNormSq(meshRotation') <= MaxQNorm
            /\ Recompute(meshRotation', scale)
            /\ measurePoints' = ResetEffect(FALSE, FALSE, TRUE, FALSE, measurePoints)
            /\ last' = Event("align", normal)
       ELSE /\ last' = Event("click", point)
            /\ UNCHANGED <<meshRotation, geometry, dimensions, verticalOffset,
                           measurePoints>>
    /\ UNCHANGED <<fileUrl, viewerMode, scale, canvasRef, created, revoked, source,
                   activeTab>>
    /\ UNCHANGED chatVars

-----------------------------------------------------------------------------
(* The viewer: the events of App, Viewer3D and the tools tab.  The canvas and
   the chat, which these events neither read nor write, are in SpecChat. *)

Next ==
    \/ HandleFileUpload(Box)
    \/ LoadComplete
    \/ \E tab \in {"info", "ai"} : SetActiveTab(tab)
    \/ \E mode \in {"ALIGN", "MEASURE"} : PressTool(mode)
    \/ HandleRotate90
    \/ \E text \in ScaleTexts : HandleScaleInput(text)
    \/ \E point \in Points : \E normal \in source.normals : HandleMeshClick(point, normal)

Spec == Init /\ [][Next]_vars

-----------------------------------------------------------------------------
(* The orientation and scale tools on Wedge, whose fourth face is slanted *)

NextGeom ==
    \/ HandleFileUpload(Wedge)
    \/ LoadComplete
    \/ PressTool("ALIGN")
    \/ HandleRotate90
    \/ \E text \in {"50", "100", "200"} : HandleScaleInput(text)
    \/ \E normal \in source.normals : HandleMeshClick("p1", normal)

SpecGeom == Init /\ [][NextGeom]_vars

-----------------------------------------------------------------------------
(* geminiService *)

\* What ai.models.generateContent can do: resolve with a response whose text
\* is text (ok), or reject with an error whose message is text.
Outcomes ==
    {[ok |-> TRUE, text |-> "Looks printable."], [ok |-> TRUE, text |-> ""],
     [ok |-> FALSE, text |-> "quota exceeded"], [ok |-> FALSE, text |-> ""]}

\* canvas.toDataURL('image/png'): the prefix and the base64 data after the comma
DataUrl == <<"data:image/png;base64", "FRAME">>

\* base64Image.split(',')[1] || base64Image
CleanBase64(image) == IF image[2] # "" THEN image[2] ELSE image

\* analyzeModelImage: what the promise settles to under the given outcome
AnalyzeModelImage(outcome) ==
    IF outcome.ok
    THEN [threw |-> FALSE,
          value |-> IF outcome.text # "" THEN outcome.text
                    ELSE "No analysis could be generated."]
    ELSE [threw |-> TRUE,
          value |-> IF outcome.text # "" THEN outcome.text ELSE "Failed to analyze image."]

-----------------------------------------------------------------------------
(* Sidebar: the AI Analysis tab *)

Prompts == {"", " ", "hi"}

\* prompt.trim()
Trim(text) == IF text = " " THEN "" ELSE text

Msg(role, content, isError) == [role |-> role, content |-> content, isError |-> isError]

Guidance == Msg("ai", "Please load a 3D model first to analyze it.", TRUE)

\* getCanvasScreenshot() without the check of canvasRef.current
ScreenshotUnchecked == <<DataUrl>>

\* getCanvasScreenshot(): <<>> is null
GetCanvasScreenshot == IF canvasRef THEN <<DataUrl>> ELSE <<>>

\* The entry the catch block of handleSendMessage appends for a rejection
\* with the given Error message
FailureMsg(message) == Msg("ai", "Failed to analyze the model.", TRUE)

\* setMessages([entry]) in place of setMessages(prev => [...prev, entry])
UserEntryAlone(text, msgs) ==
    <<Msg("user", IF Trim(text) # "" THEN Trim(text) ELSE "Analyze this model.", FALSE)>>

\* The user entry handleSendMessage appends before the call
UserEntry(text, msgs) ==
    IF Trim(text) # "" THEN Append(msgs, Msg("user", Trim(text), FALSE))
    ELSE IF Len(msgs) = 0 THEN Append(msgs, Msg("user", "Analyze this model.", FALSE))
    ELSE msgs

\* handleSendMessage, up to its await
HandleSendMessage ==
    IF Trim(prompt) = "" /\ Len(messages) > 0
    THEN /\ last' = Event("send", "ignored")
         /\ UNCHANGED chatVars
    ELSE IF GetCanvasScreenshot = <<>>
    THEN /\ messages' = Append(messages, Guidance)
         /\ last' = Event("send", "guidance")
         /\ UNCHANGED <<isAnalyzing, prompt, pending, issued>>
    ELSE /\ prompt' = ""
         /\ isAnalyzing' = TRUE
         /\ messages' = UserEntry(prompt, messages)
         /\ pending' = Append(pending,
                [data |-> CleanBase64(GetCanvasScreenshot[1]),
                 text |-> IF Trim(prompt) # "" THEN Trim(prompt)
                          ELSE "What is this object and what are the 3D printing considerations?"])
         /\ issued' = issued + 1
         /\ last' = Event("send", "issued")

\* disabled={!dimensions} of the Auto-Analyze button, rendered while the
\* transcript is empty
AutoAnalyzeEnabled == activeTab = "ai" /\ Len(messages) = 0 /\ dimensions # <<>>

\* disabled={!dimensions} of the prompt box
TextareaEnabledWhileBusy == activeTab = "ai" /\ dimensions # <<>>

\* disabled={isAnalyzing || !dimensions} of the prompt box
TextareaEnabled == activeTab = "ai" /\ ~(isAnalyzing \/ dimensions = <<>>)

\* disabled={isAnalyzing || !dimensions || !prompt.trim()} of the Send button
SendEnabled == activeTab = "ai" /\ ~(isAnalyzing \/ dimensions = <<>> \/ Trim(prompt) = "")

ClickAutoAnalyze ==
    /\ AutoAnalyzeEnabled
    /\ Len(messages) < MaxMsgs
    /\ HandleSendMessage
    /\ UNCHANGED <<canvasRef, activeTab>>
    /\ UNCHANGED appVars

\* Enter without Shift in the prompt box
PressEnter ==
    /\ TextareaEnabled
    /\ Len(messages) < MaxMsgs
    /\ HandleSendMessage
    /\ UNCHANGED <<canvasRef, activeTab>>
    /\ UNCHANGED appVars

ClickSend ==
    /\ SendEnabled
    /\ Len(messages) < MaxMsgs
    /\ HandleSendMessage
    /\ UNCHANGED <<canvasRef, activeTab>>
    /\ UNCHANGED appVars

\* onChange of the prompt box
SetPrompt(text) ==
    /\ TextareaEnabled
    /\ prompt' = text
    /\ last' = Event("prompt", text)
    /\ UNCHANGED <<canvasRef, activeTab, messages, isAnalyzing, pending, issued>>
    /\ UNCHANGED appVars

\* A handler whose only setIsAnalyzing(false) is the last statement of try
FinallyInTry(threw, busy) == IF threw THEN busy ELSE FALSE

\* finally { setIsAnalyzing(false) }: runs after try and after catch
Finally(threw, busy) == FALSE

\* The promise of analyzeModelImage settles and handleSendMessage resumes:
\* its try / catch / finally
Settle(i, outcome) ==
    /\ i \in 1..Len(pending)
    /\ LET r == AnalyzeModelImage(outcome)
       IN  /\ messages' = Append(messages,
                IF r.threw THEN FailureMsg(r.value) ELSE Msg("ai", r.value, FALSE))
           /\ last' = Event(IF r.threw THEN "failure" ELSE "response", outcome.text)
           /\ isAnalyzing' = Finally(r.threw, isAnalyzing)
    /\ pending' = SubSeq(pending, 1, i - 1) \o SubSeq(pending, i + 1, Len(pending))
    /\ UNCHANGED <<canvasRef, activeTab, prompt, issued>>
    /\ UNCHANGED appVars

NextChat ==
    \/ HandleFileUpload(Box)
    \/ LoadComplete
    \/ HandleCanvasReady
    \/ \E tab \in {"info", "ai"} : SetActiveTab(tab)
    \/ \E text \in Prompts : SetPrompt(text)
    \/ ClickAutoAnalyze
    \/ PressEnter
    \/ ClickSend
    \/ \E i \in 1..Len(pending) : \E outcome \in Outcomes : Settle(i, outcome)

SpecChat == Init /\ [][NextChat]_vars

\* The request of analyzeModelImage is neither cancelled nor abandoned: its
\* promise settles, and the continuation after the await then runs
SettleSome == \E i \in 1..Len(pending) : \E outcome \in Outcomes : Settle(i, outcome)

SpecChatFair == SpecChat /\ WF_vars(SettleSome)

-----------------------------------------------------------------------------
(* A whole session: the chat next to the tool buttons, the rotation button
   and the scale box of the Model Info tab *)

NextSession ==
    \/ HandleFileUpload(Box)
    \/ LoadComplete
    \/ HandleCanvasReady
    \/ \E tab \in {"info", "ai"} : SetActiveTab(tab)
    \/ \E mode \in {"ALIGN", "MEASURE"} : PressTool(mode)
    \/ HandleRotate90
    \/ HandleScaleInput("200")
    \/ SetPrompt("hi")
    \/ ClickAutoAnalyze
    \/ PressEnter
    \/ ClickSend
    \/ \E i \in 1..Len(pending) : \E outcome \in Outcomes : Settle(i, outcome)

SpecSession == Init /\ [][NextSession]_vars

-----------------------------------------------------------------------------
(* Claims *)

\* C1: after handleFileUpload, whatever was set before, the rotation is the
\* default Z-up correction, the scale is 1, the mode is VIEW, the dimensions
\* are null and the measurement points are empty.
C1_UploadResets ==
    last.op = "upload" =>
        /\ meshRotation = DefaultRotation
        /\ scale = Whole(1)
        /\ viewerMode = "VIEW"
        /\ dimensions = <<>>
        /\ measurePoints = <<>>

\* A second file loaded over a rotated, scaled model in MEASURE mode with a
\* point picked.
C1_Witness ==
    /\ last.op = "upload"
    /\ last.pre.file # 0
    /\ last.pre.rotated
    /\ last.pre.scale # Whole(1)
    /\ last.pre.mode = "MEASURE"
    /\ last.pre.points # <<>>
    /\ measurePoints = <<>>
    /\ scale = Whole(1)

\* C2: every object URL created for a superseded file has been revoked exactly
\* once, the URL of the loaded file has not been revoked, and at most one
\* created URL is un-revoked.
C2_UrlsReleased ==
    /\ \A u \in 1..created : revoked[u] = IF u = fileUrl THEN 0 ELSE 1
    /\ fileUrl = created
    /\ Cardinality({u \in 1..created : revoked[u] = 0}) <= 1

\* A file has superseded another.
C2_Witness == created >= 2 /\ last.op = "upload" /\ revoked[1] = 1 /\ revoked[fileUrl] = 0

\* C3 as stated: after the same tool button is pressed twice in a row, from
\* any mode, the mode is VIEW.
C3_TwiceIsView == (last.op = "mode" /\ last.arg.n = 2) => viewerMode = "VIEW"

\* C3, amended: after the same tool button is pressed twice in a row the mode
\* is VIEW when the mode before the two presses was not that button's mode,
\* and is that button's mode when it was; a press of a button whose mode is
\* not the current one makes that mode current.
C3_Toggle ==
    /\ (last.op = "mode" /\ last.arg.n = 2) =>
           viewerMode = IF last.arg.from = last.arg.btn THEN last.arg.btn ELSE "VIEW"
    /\ (last.op = "mode" /\ last.pre.mode # last.arg.btn) => viewerMode = last.arg.btn

\* Ruler Tool pressed twice in a row out of ALIGN mode.
C3_Witness ==
    /\ last.op = "mode"
    /\ last.arg.n = 2
    /\ last.arg.btn = "MEASURE"
    /\ last.arg.from = "ALIGN"
    /\ viewerMode = "VIEW"

\* C7: a click in MEASURE mode appends the point while fewer than two are
\* stored and replaces two stored points by the clicked one; the number of
\* stored points is always 0, 1 or 2.
C7_Points ==
    /\ Len(measurePoints) \in {0, 1, 2}
    /\ last.op = "measure" =>
           measurePoints = IF Len(last.pre.points) < 2
                           THEN last.pre.points \o <<last.arg>>
                           ELSE <<last.arg>>

\* A third click, on another point than the two stored.
C7_Witness ==
    /\ last.op = "measure"
    /\ Len(last.pre.points) = 2
    /\ last.arg # last.pre.points[1]
    /\ last.arg # last.pre.points[2]
    /\ measurePoints = <<last.arg>>

\* C8: after a file upload, a mode toggle, a Rotate X press, a face alignment
\* or a scale edit that changes the scale, the measurement points are empty.
C8_PointsCleared ==
    (\/ last.op \in {"upload", "mode", "rotate", "align"}
     \/ (last.op = "scale" /\ scale # last.pre.scale)) => measurePoints = <<>>

\* A scale edit with two points stored.
C8_Witness ==
    /\ last.op = "scale"
    /\ scale # last.pre.scale
    /\ Len(last.pre.points) = 2
    /\ measurePoints = <<>>

\* C4: handleSendMessage, run on a prompt (or on the empty transcript) while
\* getCanvasScreenshot returns null, appends the one entry asking to load a
\* model, flagged as an error, calls analyzeModelImage not at all, and
\* isAnalyzing is false.
C4_Guidance ==
    (/\ last.op = "send"
     /\ ~last.pre.ready
     /\ (Trim(last.pre.prompt) # "" \/ last.pre.msgs = 0)) =>
        /\ Len(messages) = last.pre.msgs + 1
        /\ messages[Len(messages)] =
               [role |-> "ai", content |-> "Please load a 3D model first to analyze it.",
                isError |-> TRUE]
        /\ issued = last.pre.issued
        /\ pending = <<>>
        /\ ~isAnalyzing

\* A typed prompt sent before the canvas is known to App.
C4_Witness ==
    /\ last.op = "send"
    /\ ~last.pre.ready
    /\ last.pre.prompt = "hi"
    /\ last.pre.msgs = 0
    /\ Len(messages) = 1
    /\ messages[1].isError

\* C5 as stated: a failed request appends exactly one ai entry flagged as an
\* error, whose content is the provider's error message when there is one
\* and a generic fallback text otherwise, and issues no further request.
C5_ProviderMessageShown ==
    last.op = "failure" =>
        /\ Len(messages) = last.pre.msgs + 1
        /\ messages[Len(messages)].role = "ai"
        /\ messages[Len(messages)].isError
        /\ IF last.arg # ""
           THEN messages[Len(messages)].content = last.arg
           ELSE messages[Len(messages)].content \in
                    {"Failed to analyze image.", "Failed to analyze the model."}
        /\ issued = last.pre.issued

\* C6: at most one request is in flight at any time.
C6_OneInFlight == Len(pending) <= 1

\* A request is in flight while the user has loaded another file and has the
\* AI tab open on it.
C6_Witness ==
    /\ Len(pending) = 1
    /\ isAnalyzing
    /\ activeTab = "ai"
    /\ dimensions # <<>>
    /\ fileUrl = 2
    /\ last.op = "tab"

\* C9: after a face alignment the clicked face's local normal, transformed by
\* the new rotation, is the downward axis (0, -1, 0).
C9_FaceDown ==
    last.op = "align" =>
        ApplyQuaternion(last.arg, meshRotation) = [v |-> <<0, -1, 0>>, d |-> 1]

\* The slanted face of Wedge dropped to the floor.
C9_Witness ==
    /\ last.op = "align"
    /\ last.arg = [v |-> <<3, 6, 2>>, d |-> 7]
    /\ QNormSq(meshRotation) > 4

\* The dimensions dims with the extents multiplied by s and the volume by s^3
Scaled(dims, s) ==
    [width |-> RMul(s, dims.width), height |-> RMul(s, dims.height),
     depth |-> RMul(s, dims.depth), volume |-> RMul(RMul(s, s), RMul(s, dims.volume))]

\* C10: the dimensions reported at scale s are s times (s^3 times, for the
\* volume) the dimensions of the same mesh and rotation at scale 1.
C10_ScaleHomogeneous ==
    dimensions # <<>> =>
        dimensions[1] = Scaled(LayoutEffect(source.geo, meshRotation, Whole(1)).dims, scale)

\* Wedge at 200 %, resting on its slanted face.
C10_Witness ==
    /\ dimensions # <<>>
    /\ scale = Whole(2)
    /\ QNormSq(meshRotation) > 4
    /\ last.op = "scale"
    /\ dimensions[1].volume =
           RMul(Whole(8), LayoutEffect(source.geo, meshRotation, Whole(1)).dims.volume)

\* C11: every issued request eventually resolves: the continuation appends
\* exactly one assistant entry (the response text or an error entry) right
\* after the user entry of its send, no request is left in flight and
\* isAnalyzing is false again, on the success path and on the failure path.
C11_Resolved ==
    /\ last.op \in {"response", "failure"}
    /\ pending = <<>>
    /\ ~isAnalyzing
    /\ Len(messages) = last.pre.msgs + 1
    /\ messages[Len(messages)].role = "ai"
    /\ messages[Len(messages)].isError = (last.op = "failure")
    /\ (last.op = "response" /\ last.arg # "") => messages[Len(messages)].content = last.arg
    /\ Len(messages) >= 2
    /\ messages[Len(messages) - 1].role = "user"

C11_RequestResolves == (pending # <<>>) ~> C11_Resolved

C11_Witness ==
    /\ C11_Resolved
    /\ last.op = "failure"
    /\ last.pre.busy
    /\ issued = 2
    /\ messages[1].role = "user" /\ messages[2].role = "ai" /\ ~messages[2].isError

\* C12: the transcript is append-only: in every step (send, guidance,
\* response, failure, file upload, mode, rotation or scale change) the
\* transcript before the step is a prefix of the transcript after it.
C12_AppendOnly ==
    [][/\ Len(messages') >= Len(messages)
       /\ SubSeq(messages', 1, Len(messages)) = messages]_vars

C12_Witness ==
    /\ Len(messages) = 3
    /\ messages[1] = Guidance
    /\ messages[2].role = "user"
    /\ messages[3].role = "ai"
    /\ last.op \in {"mode", "rotate", "scale", "upload"}

\* C13: in every reachable state the viewer mode is one of VIEW, MEASURE and
\* ALIGN; AI_ANALYSIS is never reached by tool buttons, uploads or chat sends.
C13_ModeReachable == viewerMode \in {"VIEW", "MEASURE", "ALIGN"}

C13_Witness ==
    /\ last.op \in {"response", "failure"}
    /\ last.pre.busy
    /\ viewerMode = "ALIGN"
    /\ created >= 2
    /\ Len(messages) >= 2

\* The world Y of the vertices of the displayed object: the mesh applies
\* scale, then quaternion, to the centred geometry, and its group is moved up
\* by verticalOffset.
DisplayedY ==
    LET geo == geometry[1]
    IN  {LET y == RotN(<<v[1] * scale[1], v[2] * scale[1], v[3] * scale[1]>>, meshRotation)[2]
             d == geo.d * scale[2] * QNormSq(meshRotation)
         IN  Rat(y * verticalOffset[2] + verticalOffset[1] * d, d * verticalOffset[2]) :
         v \in geo.v}

\* C14: whenever the object is displayed, after the recomputation for the
\* current file, rotation and scale, the vertical offset is minus the minimum
\* Y of the centred, rotated, scaled mesh: the lowest vertex of the displayed
\* object has Y = 0 and no vertex lies below the ground plane.
C14_OnGround ==
    geometry # <<>> =>
        /\ Whole(0) \in DisplayedY
        /\ \A y \in DisplayedY : y[1] >= 0 /\ y[2] > 0

C14_Witness ==
    /\ geometry # <<>>
    /\ last.op = "scale"
    /\ scale = Whole(2)
    /\ QNormSq(meshRotation) > 4
    /\ last.pre.rotated
    /\ verticalOffset[2] # 1
    /\ Cardinality(DisplayedY) = 4

\* C15: measurement points exist only in measurement mode: stored points
\* imply viewerMode = MEASURE, a click on the mesh in VIEW or ALIGN mode adds
\* no point, and leaving MEASURE mode empties the points.
C15_PointsOnlyInMeasure ==
    /\ measurePoints # <<>> => viewerMode = "MEASURE"
    /\ (last.op \in {"measure", "align", "click"} /\ last.pre.mode # "MEASURE") =>
           measurePoints = <<>>
    /\ (last.pre.mode = "MEASURE" /\ viewerMode # "MEASURE") => measurePoints = <<>>

\* The Ruler Tool button pressed with two points stored.
C15_Witness ==
    /\ last.op = "mode"
    /\ last.pre.mode = "MEASURE"
    /\ Len(last.pre.points) = 2
    /\ viewerMode = "VIEW"
    /\ measurePoints = <<>>

====
